---- MODULE Spec2Model ----
(***************************************************************************)
(* Flask-Celery-Helper, flask_celery.py: the single_instance task          *)
(* decorator and its Redis lock manager.                                   *)
(*                                                                         *)
(* Python strings are modelled as sequences of text fragments, so that     *)
(* concatenation and formatting are computed and not assumed.              *)
(***************************************************************************)
EXTENDS Integers, Sequences, FiniteSets, TLC

\* ------------------------------------------------------------- bounds
\* Number of guard() invocations (calls of wrapped) in a behaviour.
NumInv == 2
\* Longest positional argument tuple of the identity specification.
MaxArgs == 2
\* Largest small time limit (seconds) of the timeout specification.
MaxLimit == 2

\* ------------------------------------------------------ Python values
\* None and integers, as far as `or`, int() and + need them.
PyNone == [isNone |-> TRUE, v |-> 0]

PyInt(n) == [isNone |-> FALSE, v |-> n]

\* Truth value of None / an integer: None and 0 are false.
Truthy(x) == ~x.isNone /\ x.v # 0

\* Python's `a or b`: a when a is true, otherwise b.
PyOr(a, b) == IF Truthy(a) THEN a ELSE b

\* Argument values: integers and strings (a string is its characters).
IntVal(n) == [t |-> "int", n |-> n, s |-> <<>>]

StrVal(s) == [t |-> "str", n |-> 0, s |-> s]

Digits == <<"0", "1", "2", "3", "4", "5", "6", "7", "8", "9">>

\* str(n) of a natural number: its decimal digits.
RECURSIVE StrOfNat(_)
StrOfNat(n) ==
    IF n < 10 THEN <<Digits[n + 1]>>
    ELSE StrOfNat(n \div 10) \o <<Digits[(n % 10) + 1]>>

\* repr() of an argument value: digits of an integer, a quoted string.
Repr(x) == IF x.t = "int" THEN StrOfNat(x.n) ELSE <<"'">> \o x.s \o <<"'">>

\* ", ".join(parts) for a sequence of strings.
RECURSIVE JoinComma(_)
JoinComma(parts) ==
    IF Len(parts) = 0 THEN <<>>
    ELSE IF Len(parts) = 1 THEN parts[1]
    ELSE parts[1] \o <<",", " ">> \o JoinComma(Tail(parts))

\* str(args) of a tuple: "()", "(x,)", "(x, y)".
StrOfTuple(args) ==
    IF Len(args) = 1 THEN <<"(">> \o Repr(args[1]) \o <<",", ")">>
    ELSE <<"(">> \o JoinComma([n \in 1..Len(args) |-> Repr(args[n])]) \o <<")">>

\* Keyword names, in the order sorted() gives them.
KeyOrder == <<"a", "b", "c">>

KeyRank(k) == CHOOSE n \in 1..Len(KeyOrder) : KeyOrder[n] = k

\* kwargs is a dict: here the sequence of its (key, value) items in call
\* order, the keys distinct.
KwKeys(kwargs) == {kwargs[n].k : n \in 1..Len(kwargs)}

\* kwargs[k]
KwGet(kwargs, k) == (CHOOSE n \in 1..Len(kwargs) : kwargs[n].k = k)

\* sorted(kwargs): the keys in ascending order.
RECURSIVE SortedKeys(_)
SortedKeys(keys) ==
    IF keys = {} THEN <<>>
    ELSE LET least == CHOOSE k \in keys : \A o \in keys : KeyRank(k) <= KeyRank(o)
         IN <<least>> \o SortedKeys(keys \ {least})

\* str([(k, kwargs[k]) for k in sorted(kwargs)])
StrOfItems(kwargs) ==
    LET ks == SortedKeys(KwKeys(kwargs))
        item(n) == <<"(", "'", ks[n], "'", ",", " ">>
                     \o Repr(kwargs[KwGet(kwargs, ks[n])].v) \o <<")">>
    IN <<"[">> \o JoinComma([n \in 1..Len(ks) |-> item(n)]) \o <<"]">>

\* merged_args = str(args) + str([(k, kwargs[k]) for k in sorted(kwargs)])
MergedArgs(args, kwargs) == StrOfTuple(args) \o StrOfItems(kwargs)

\* hashlib.md5(text).hexdigest(): a digest of the text.  The digest is kept
\* symbolic (the text between digest marks): equal texts give equal digests
\* and, collisions of MD5 aside, different texts give different digests.
Md5HexDigest(text) == <<"md5<">> \o text \o <<">">>

\* ------------------------------------------------------ the decorator
\* Variant of task_identifier: the keyword items taken in call order.
task_identifierUnsorted(name, args, kwargs, include_args) ==
    LET item(n) == <<"(", "'", kwargs[n].k, "'", ",", " ">>
                     \o Repr(kwargs[n].v) \o <<")">>
        items == <<"[">> \o JoinComma([n \in 1..Len(kwargs) |-> item(n)]) \o <<"]">>
    IN IF include_args
       THEN <<name>> \o <<".args.">> \o Md5HexDigest(StrOfTuple(args) \o items)
       ELSE <<name>>

\* Variant of task_identifier: include_args ignored, the name alone.
task_identifierNameOnly(name, args, kwargs, include_args) == <<name>>

\* wrapped(), "Generate task identifier": the task's name, and with
\* include_args the md5 of the merged arguments after ".args.".
task_identifier(name, args, kwargs, include_args) ==
    IF include_args
    THEN <<name>> \o <<".args.">> \o Md5HexDigest(MergedArgs(args, kwargs))
    ELSE <<name>>

\* CELERY_LOCK_REDIS.format(task_id=task_identifier)
CELERY_LOCK_REDIS(task_id) == <<"_celery.single_instance.">> \o task_id

\* current_app.config.get(key, default)
ConfigGet(config, key, default) ==
    IF key \in DOMAIN config THEN config[key] ELSE default

\* Variant of timeout: the task's hard limit looked at before its soft one.
timeoutHardFirst(lock_timeout, celery_self, config) ==
    LET time_limit == ConfigGet(config, "CELERYD_TASK_TIME_LIMIT", 0)
        soft_time_limit == ConfigGet(config, "CELERYD_TASK_SOFT_TIME_LIMIT", 0)
        final_answer ==
            PyOr(lock_timeout,
              PyOr(celery_self.time_limit,
                PyOr(celery_self.soft_time_limit,
                  PyOr(PyInt(soft_time_limit),
                    PyOr(PyInt(time_limit), PyInt(60 * 5))))))
    IN final_answer.v + 5

\* Variant of timeout: the five seconds of margin left out.
timeoutNoMargin(lock_timeout, celery_self, config) ==
    LET time_limit == ConfigGet(config, "CELERYD_TASK_TIME_LIMIT", 0)
        soft_time_limit == ConfigGet(config, "CELERYD_TASK_SOFT_TIME_LIMIT", 0)
        final_answer ==
            PyOr(lock_timeout,
              PyOr(celery_self.soft_time_limit,
                PyOr(celery_self.time_limit,
                  PyOr(PyInt(soft_time_limit),
                    PyOr(PyInt(time_limit), PyInt(60 * 5))))))
    IN final_answer.v

\* _LockManagerRedis.timeout: the lock's timeout in seconds.
timeout(lock_timeout, celery_self, config) ==
    LET time_limit == ConfigGet(config, "CELERYD_TASK_TIME_LIMIT", 0)
        soft_time_limit == ConfigGet(config, "CELERYD_TASK_SOFT_TIME_LIMIT", 0)
        last_resort == 60 * 5
        final_answer ==
            PyOr(lock_timeout,
              PyOr(celery_self.soft_time_limit,
                PyOr(celery_self.time_limit,
                  PyOr(PyInt(soft_time_limit),
                    PyOr(PyInt(time_limit), PyInt(last_resort))))))
    IN final_answer.v + 5

\* Whether the string sub occurs in the string s (Python's `sub in s`).
Contains(s, sub) ==
    \E n \in 0..(Len(s) - Len(sub)) : SubSeq(s, n + 1, n + Len(sub)) = sub

\* backend_url.split('://')[0]: the text before the first "://".
SplitScheme(url) ==
    LET sep == <<":", "/", "/">>
        at == {n \in 1..(Len(url) - 2) : SubSeq(url, n, n + 2) = sep}
    IN IF at = {} THEN url
       ELSE SubSeq(url, 1, (CHOOSE n \in at : \A m \in at : n <= m) - 1)

\* wrapped(), "Select the manager": the backend's url, or its dburi when the
\* backend has no url (NotImplementedError).
BackendUrl(backend) == IF backend.hasUrl THEN backend.url ELSE backend.dburi

\* Variant of IsRedisBackend: 'redis' looked for in the whole url.
IsRedisBackendWholeUrl(backend) ==
    Contains(BackendUrl(backend), <<"r", "e", "d", "i", "s">>)

\* 'redis' in backend
IsRedisBackend(backend) ==
    Contains(SplitScheme(BackendUrl(backend)), <<"r", "e", "d", "i", "s">>)

\* Variant of IsInstance: true of the class itself too (issubclass).
IsInstanceOrClass(obj, cls) == obj.kind \in {"instance", "type"} /\ obj.cls = cls

\* isinstance(obj, cls) for the objects __exit__ sees: exc_type is None or
\* an exception class, and a class object is an instance of `type` only.
IsInstance(obj, cls) == obj.kind = "instance" /\ obj.cls = cls

\* ------------------------------------------------------- configuration
\* The decorated tasks: the bound task (celery_self) and the decorator's
\* options.
Tasks ==
    { [name |-> "send_report", soft_time_limit |-> PyNone, time_limit |-> PyNone,
       lock_timeout |-> PyInt(10), include_args |-> FALSE],
      [name |-> "send_mail", soft_time_limit |-> PyNone, time_limit |-> PyInt(30),
       lock_timeout |-> PyNone, include_args |-> TRUE] }

\* The Flask application's configuration: no Celery time limits set.
AppConfig == [k \in {} |-> 0]

\* Result backends of the Celery application.
Backends ==
    { [hasUrl |-> TRUE, dburi |-> <<>>,
       url |-> <<"r", "e", "d", "i", "s", ":", "/", "/", "h">>],
      [hasUrl |-> TRUE, dburi |-> <<>>,
       url |-> <<"a", "m", "q", "p", ":", "/", "/", "r", "e", "d", "i", "s">>],
      [hasUrl |-> FALSE, url |-> <<>>,
       dburi |-> <<"s", "q", "l", "i", "t", "e", ":", "/", "/", "/", "f">>] }

\* Argument sets the tasks are called with.
KwItem(k, v) == [k |-> k, v |-> v]

CallArgs ==
    { [args |-> <<IntVal(1)>>, kwargs |-> <<KwItem("a", IntVal(1))>>],
      [args |-> <<IntVal(2)>>, kwargs |-> <<KwItem("a", IntVal(1))>>] }

\* ---------------------------------------------------------------- state
Invocations == 1..NumInv

NoCall == [task |-> "", args |-> <<>>, kwargs |-> <<>>, backend_url |-> <<>>]

NoManager == [celery_self |-> "", lock_timeout |-> PyNone, task_identifier |-> <<>>]

VARIABLES
    pc,            \* where each invocation of wrapped() is
    call,          \* the task and the arguments of each invocation
    lock_manager,  \* the _LockManagerRedis of each invocation
    store,         \* the Redis store: the set of leases (locks) it holds
    body,          \* the run of func: "none", "running", or how it ended
    outcome,       \* what the caller of wrapped() sees
    found,         \* the owner of the lease the acquire attempt found, or 0
    leaseEnd,      \* what became of the lease an invocation created
    storeCalls,    \* acquire / release calls each invocation made
    bodyRuns,      \* how many times func was called by each invocation
    resolved,      \* timeout specification: the candidates and the result
    derived        \* identity specification: the call and its identifier

guardVars == <<pc, call, lock_manager, store, body, outcome, found, leaseEnd,
               storeCalls, bodyRuns>>

pureVars == <<resolved, derived>>

vars == <<pc, call, lock_manager, store, body, outcome, found, leaseEnd,
          storeCalls, bodyRuns, resolved, derived>>

TaskOf(name) == CHOOSE t \in Tasks : t.name = name

\* Variant of KeyOf: the key formatted from the invocation, not the task.
KeyOfInvocation(i) ==
    CELERY_LOCK_REDIS(lock_manager[i].task_identifier \o <<".", StrOfNat(i)[1]>>)

\* The redis key an invocation's lock manager locks.
KeyOf(i) == CELERY_LOCK_REDIS(lock_manager[i].task_identifier)

LeasesAt(key) == {l \in store : l.key = key}

NoResolve ==
    [lock_timeout |-> PyNone, soft_time_limit |-> PyNone, time_limit |-> PyNone,
     config |-> [k \in {} |-> 0], out |-> 0]

NoDerive ==
    [name |-> "", args |-> <<>>, kwargs |-> <<>>, include_args |-> FALSE,
     out |-> <<>>]

GuardInit ==
    /\ pc = [i \in Invocations |-> "Idle"]
    /\ call = [i \in Invocations |-> NoCall]
    /\ lock_manager = [i \in Invocations |-> NoManager]
    /\ store = {}
    /\ body = [i \in Invocations |-> "none"]
    /\ outcome = [i \in Invocations |-> "none"]
    /\ found = [i \in Invocations |-> 0]
    /\ leaseEnd = [i \in Invocations |-> "none"]
    /\ storeCalls = [i \in Invocations |-> [acquire |-> 0, release |-> 0]]
    /\ bodyRuns = [i \in Invocations |-> 0]

Init == GuardInit /\ resolved = NoResolve /\ derived = NoDerive

\* ------------------------------------------------------------ the store
\* Variant of LockAcquired: the result of acquire() not looked at.
LockAcquiredAlways(key) == TRUE

\* Variant of StoreAfterAcquire: a plain SET, overwriting the key.
StoreAfterAcquireOverwrite(key, token, ttl) ==
    {l \in store : l.key # key} \cup {[key |-> key, token |-> token, ttl |-> ttl]}

\* Variant of AcquireBlocking: acquire() left to its default, blocking=True.
AcquireBlockingDefault == TRUE

\* The blocking argument of acquire(blocking=False): a blocking acquire
\* waits for the key to be free, a non-blocking one answers at once.
AcquireBlocking == FALSE

\* Variant of AcquireErrorOutcome: every failure of acquire() reported as
\* OtherInstanceError.
AcquireErrorAsLocked == "OtherInstanceError"

\* What the caller sees when acquire() raises a connection error: __enter__
\* catches nothing, the error leaves wrapped() as it is.
AcquireErrorOutcome == "ConnectionError"

\* What the caller sees when release() raises a connection error: it
\* leaves __exit__ and wrapped() in place of the outcome of func.
ReleaseErrorOutcome == "ConnectionError"

\* Variant of StoreAfterAcquire: the lease added whatever the key holds.
StoreAfterAcquireUnchecked(key, token, ttl) ==
    store \cup {[key |-> key, token |-> token, ttl |-> ttl]}

\* redis.lock(key, timeout).acquire(blocking=False): one atomic
\* set-if-not-exists with expiry; TRUE when the key was absent.
LockAcquired(key) == LeasesAt(key) = {}

StoreAfterAcquire(key, token, ttl) ==
    IF LockAcquired(key)
    THEN store \cup {[key |-> key, token |-> token, ttl |-> ttl]}
    ELSE store

\* lock.release(): deletes the key.
StoreAfterRelease(key) == store \ LeasesAt(key)

\* What a deletion or expiry of the leases `gone` means for their owners.
LeaseEndAfter(gone, how, by) ==
    [j \in Invocations |->
        IF \E l \in gone : l.token = j
        THEN (IF j = by THEN "released" ELSE how)
        ELSE leaseEnd[j]]

\* ---------------------------------------------------------- operations
\* wrapped(), lines 178-193, for the call of task t with the arguments a
\* under the result backend: the identifier and the choice of the manager.
wrappedCall(i, t, a, backend) ==
    /\ pc[i] = "Idle"
    /\ call' = [call EXCEPT ![i] = [task |-> t.name, args |-> a.args,
                                    kwargs |-> a.kwargs,
                                    backend_url |-> BackendUrl(backend)]]
    /\ IF IsRedisBackend(backend)
       THEN /\ lock_manager' = [lock_manager EXCEPT ![i] =
                   [celery_self |-> t.name, lock_timeout |-> t.lock_timeout,
                    task_identifier |->
                       task_identifier(t.name, a.args, a.kwargs, t.include_args)]]
            /\ pc' = [pc EXCEPT ![i] = "Acquiring"]
            /\ UNCHANGED outcome
       ELSE /\ pc' = [pc EXCEPT ![i] = "Unsupported"]
            /\ outcome' = [outcome EXCEPT ![i] = "NotImplementedError"]
            /\ UNCHANGED lock_manager
    /\ UNCHANGED <<store, body, found, leaseEnd, storeCalls, bodyRuns, pureVars>>

\* A call of a decorated task.
wrapped(i) ==
    \E t \in Tasks, a \in CallArgs, backend \in Backends : wrappedCall(i, t, a, backend)

\* _LockManagerRedis.__enter__, then the call of func when the lock is got.
Enter(i) ==
    /\ pc[i] = "Acquiring"
    /\ AcquireBlocking => LockAcquired(KeyOf(i))
    /\ LET redis_key == KeyOf(i)
           tmo == timeout(lock_manager[i].lock_timeout,
                          TaskOf(lock_manager[i].celery_self), AppConfig)
       IN /\ storeCalls' = [storeCalls EXCEPT ![i].acquire = @ + 1]
          /\ found' = [found EXCEPT ![i] =
                IF LeasesAt(redis_key) = {} THEN 0
                ELSE (CHOOSE l \in LeasesAt(redis_key) : TRUE).token]
          /\ store' = StoreAfterAcquire(redis_key, i, tmo)
          /\ IF LockAcquired(redis_key)
             THEN /\ pc' = [pc EXCEPT ![i] = "Held"]
                  /\ body' = [body EXCEPT ![i] = "running"]
                  /\ bodyRuns' = [bodyRuns EXCEPT ![i] = @ + 1]
                  /\ leaseEnd' = [leaseEnd EXCEPT ![i] = "live"]
                  /\ UNCHANGED outcome
             ELSE /\ pc' = [pc EXCEPT ![i] = "Rejected"]
                  /\ outcome' = [outcome EXCEPT ![i] = "OtherInstanceError"]
                  /\ UNCHANGED <<body, bodyRuns, leaseEnd>>
    /\ UNCHANGED <<call, lock_manager, pureVars>>

\* func(*args, **kwargs) ends: it returns, raises an error of its own, or
\* raises OtherInstanceError (a nested single-instance task).
BodyEnds(i) ==
    /\ pc[i] = "Held"
    /\ body[i] = "running"
    /\ \E how \in {"returned", "Exception", "OtherInstanceError"} :
         body' = [body EXCEPT ![i] = how]
    /\ UNCHANGED <<pc, call, lock_manager, store, outcome, found, leaseEnd,
                   storeCalls, bodyRuns, pureVars>>

\* Variant of ExcType: the exception itself where its class is expected.
ExcTypeInstance(how) ==
    IF how = "returned" THEN [kind |-> "none", cls |-> ""]
    ELSE [kind |-> "instance", cls |-> how]

\* The exc_type __exit__ is given: None, or the class of the exception.
ExcType(how) ==
    IF how = "returned" THEN [kind |-> "none", cls |-> ""]
    ELSE [kind |-> "type", cls |-> how]

\* Variant of ExitOutcome: __exit__ returning a true value, which
\* suppresses the exception of the with-body.
ExitOutcomeSuppressed(how) == IF how = "returned" THEN how ELSE "suppressed"

\* What the caller sees once __exit__ has returned None: the exception of
\* func goes on, or `return ret_value` returns what func returned.
ExitOutcome(how) == how

\* _LockManagerRedis.__exit__, then the end of wrapped().
Exit(i) ==
    /\ pc[i] = "Held"
    /\ body[i] \notin {"none", "running"}
    /\ IF IsInstance(ExcType(body[i]), "OtherInstanceError")
       THEN UNCHANGED <<store, storeCalls, leaseEnd>>
       ELSE /\ store' = StoreAfterRelease(KeyOf(i))
            /\ storeCalls' = [storeCalls EXCEPT ![i].release = @ + 1]
            /\ leaseEnd' = LeaseEndAfter(LeasesAt(KeyOf(i)), "deleted", i)
    /\ pc' = [pc EXCEPT ![i] = "Released"]
    /\ outcome' = [outcome EXCEPT ![i] = ExitOutcome(body[i])]
    /\ UNCHANGED <<call, lock_manager, body, found, bodyRuns, pureVars>>

\* The worker running func crashes: __exit__ never runs.
Crash(i) ==
    /\ pc[i] = "Held"
    /\ body[i] = "running"
    /\ pc' = [pc EXCEPT ![i] = "Crashed"]
    /\ body' = [body EXCEPT ![i] = "crashed"]
    /\ UNCHANGED <<call, lock_manager, store, outcome, found, leaseEnd,
                   storeCalls, bodyRuns, pureVars>>

\* Variant of Expire: the lock was created without a timeout.
ExpireNever(l) == FALSE /\ UNCHANGED vars

\* The timeout of a lock elapses: the store drops the key.
Expire(l) ==
    /\ l \in store
    /\ store' = store \ {l}
    /\ leaseEnd' = LeaseEndAfter({l}, "expired", 0)
    /\ UNCHANGED <<pc, call, lock_manager, body, outcome, found, storeCalls,
                   bodyRuns, pureVars>>

Next ==
    \/ \E i \in Invocations : wrapped(i)
    \/ \E i \in Invocations : Enter(i)
    \/ \E i \in Invocations : BodyEnds(i)
    \/ \E i \in Invocations : Exit(i)
    \/ \E i \in Invocations : Crash(i)
    \/ \E l \in store : Expire(l)

Spec == Init /\ [][Next]_vars

\* ------------------------------------------ the guard, with lock expiry
\* A call of the task send_report.
wrappedReport(i) ==
    \E a \in CallArgs, backend \in Backends :
        wrappedCall(i, TaskOf("send_report"), a, backend)

NextFair ==
    \/ \E i \in Invocations : wrappedReport(i)
    \/ \E i \in Invocations : Enter(i)
    \/ \E i \in Invocations : BodyEnds(i)
    \/ \E i \in Invocations : Exit(i)
    \/ \E i \in Invocations : Crash(i)
    \/ \E l \in store : Expire(l)

\* The expiry of the lock an invocation created.
ExpireOf(i) == \E l \in store : l.token = i /\ Expire(l)

\* The calls of one task, Redis expiring every lock whose timeout elapsed.
SpecFair ==
    Init /\ [][NextFair]_vars /\ \A i \in Invocations : WF_vars(ExpireOf(i))

\* The steps of an invocation's own worker.
OwnStep(i) == Enter(i) \/ BodyEnds(i) \/ Exit(i)

\* The calls of one task, every worker going on with its own steps.
SpecLive ==
    Init /\ [][NextFair]_vars /\ \A i \in Invocations : WF_vars(OwnStep(i))

\* ----------------------------------- the guard, with store outages
\* acquire() raises a connection error: the command reached the store and
\* the answer was lost, or it never reached the store.  __exit__ is not
\* called and func is not run.
EnterFails(i) ==
    /\ pc[i] = "Acquiring"
    /\ storeCalls' = [storeCalls EXCEPT ![i].acquire = @ + 1]
    /\ \E applied \in BOOLEAN :
         LET tmo == timeout(lock_manager[i].lock_timeout,
                            TaskOf(lock_manager[i].celery_self), AppConfig)
         IN IF applied /\ LockAcquired(KeyOf(i))
            THEN /\ store' = StoreAfterAcquire(KeyOf(i), i, tmo)
                 /\ leaseEnd' = [leaseEnd EXCEPT ![i] = "live"]
            ELSE UNCHANGED <<store, leaseEnd>>
    /\ pc' = [pc EXCEPT ![i] = "AcquireFailed"]
    /\ outcome' = [outcome EXCEPT ![i] = AcquireErrorOutcome]
    /\ UNCHANGED <<call, lock_manager, body, found, bodyRuns, pureVars>>

\* release() raises a connection error in __exit__: the deletion reached
\* the store and the answer was lost, or it never reached the store.
ExitFails(i) ==
    /\ pc[i] = "Held"
    /\ body[i] \notin {"none", "running"}
    /\ ~IsInstance(ExcType(body[i]), "OtherInstanceError")
    /\ storeCalls' = [storeCalls EXCEPT ![i].release = @ + 1]
    /\ \E applied \in BOOLEAN :
         IF applied
         THEN /\ store' = StoreAfterRelease(KeyOf(i))
              /\ leaseEnd' = LeaseEndAfter(LeasesAt(KeyOf(i)), "deleted", i)
         ELSE UNCHANGED <<store, leaseEnd>>
    /\ pc' = [pc EXCEPT ![i] = "ReleaseFailed"]
    /\ outcome' = [outcome EXCEPT ![i] = ReleaseErrorOutcome]
    /\ UNCHANGED <<call, lock_manager, body, found, bodyRuns, pureVars>>

NextOutage ==
    \/ \E i \in Invocations : wrappedReport(i)
    \/ \E i \in Invocations : Enter(i)
    \/ \E i \in Invocations : EnterFails(i)
    \/ \E i \in Invocations : BodyEnds(i)
    \/ \E i \in Invocations : Exit(i)
    \/ \E i \in Invocations : ExitFails(i)
    \/ \E i \in Invocations : Crash(i)
    \/ \E l \in store : Expire(l)

\* The calls of one task against a store that may be unreachable.
SpecOutage == Init /\ [][NextOutage]_vars

\* ------------------------------------------- the timeout, on its own
\* Time limits a candidate may hold: 0, small limits, and 30 seconds.
LimitValues == (0..MaxLimit) \cup {30}

\* A candidate of the task or of the decorator: None or an integer.
Candidates == {PyNone} \cup {PyInt(n) : n \in LimitValues}

ConfigKeys == {"CELERYD_TASK_TIME_LIMIT", "CELERYD_TASK_SOFT_TIME_LIMIT"}

\* The application configurations: each key absent or set to a limit.
Configs == UNION {[K -> LimitValues] : K \in SUBSET ConfigKeys}

InitTimeout ==
    /\ GuardInit
    /\ derived = NoDerive
    /\ \E o \in Candidates, sl \in Candidates, tl \in Candidates, c \in Configs :
         resolved = [lock_timeout |-> o, soft_time_limit |-> sl, time_limit |-> tl,
                     config |-> c, out |-> 0]

\* One evaluation of the timeout property of a lock manager.
ResolveTimeout ==
    /\ resolved.out = 0
    /\ resolved' = [resolved EXCEPT !.out =
            timeout(resolved.lock_timeout,
                    [soft_time_limit |-> resolved.soft_time_limit,
                     time_limit |-> resolved.time_limit],
                    resolved.config)]
    /\ UNCHANGED <<guardVars, derived>>

NextTimeout == ResolveTimeout

SpecTimeout == InitTimeout /\ [][NextTimeout]_vars

\* ------------------------------------------ the identifier, on its own
ArgValues == {IntVal(1), StrVal(<<"1">>)}

KwValues == {IntVal(1), IntVal(2)}

KwNames == {"a", "b"}

\* The positional argument tuples.
ArgTuples == UNION {[1..n -> ArgValues] : n \in 0..MaxArgs}

\* The keyword argument dicts, in every order of their items.
KwDicts ==
    {kw \in UNION {[1..n -> [k : KwNames, v : KwValues]] :
                        n \in 0..Cardinality(KwNames)} :
        \A m, n \in 1..Len(kw) : m # n => kw[m].k # kw[n].k}

InitIdentity ==
    /\ GuardInit
    /\ resolved = NoResolve
    /\ \E t \in Tasks, a \in ArgTuples, kw \in KwDicts, inc \in BOOLEAN :
         derived = [name |-> t.name, args |-> a, kwargs |-> kw,
                    include_args |-> inc, out |-> <<>>]

\* wrapped(), "Generate task identifier", for one call.
DeriveIdentity ==
    /\ derived.out = <<>>
    /\ derived' = [derived EXCEPT !.out =
            task_identifier(derived.name, derived.args, derived.kwargs,
                            derived.include_args)]
    /\ UNCHANGED <<guardVars, resolved>>

NextIdentity == DeriveIdentity

SpecIdentity == InitIdentity /\ [][NextIdentity]_vars

\* ================================================================ claims
\* Two calls pass the same arguments: the same positional tuple and the
\* same keyword items, in whatever order the items were given.
SameArguments(args1, kwargs1, args2, kwargs2) ==
    /\ args1 = args2
    /\ {kwargs1[n] : n \in 1..Len(kwargs1)} = {kwargs2[n] : n \in 1..Len(kwargs2)}

\* C8: the lock timeout is 5 plus the first candidate that is neither empty
\* nor zero, in the order override, task soft limit, task hard limit, global
\* soft limit, global hard limit, 300; so it is at least 5, it is 305 when
\* every candidate is empty or zero, and it is 35 for a lone hard limit of 30.
C8_TimeoutPrecedence ==
    resolved.out # 0 =>
      LET cfg(k) == IF k \in DOMAIN resolved.config
                    THEN PyInt(resolved.config[k]) ELSE PyNone
          order == <<resolved.lock_timeout, resolved.soft_time_limit,
                     resolved.time_limit, cfg("CELERYD_TASK_SOFT_TIME_LIMIT"),
                     cfg("CELERYD_TASK_TIME_LIMIT")>>
          set == {n \in 1..5 : ~order[n].isNone /\ order[n].v > 0}
          first == CHOOSE n \in set : \A m \in set : n <= m
          chosen == IF set = {} THEN 300 ELSE order[first].v
      IN /\ resolved.out = chosen + 5
         /\ resolved.out >= 5
         /\ (set = {} => resolved.out = 305)
         /\ (set = {3} /\ order[3].v = 30 => resolved.out = 35)

\* C8 witness: the timeout was resolved from a lone task hard limit of 30
\* seconds, every other candidate being empty, and is 35.
C8_Witness ==
    /\ resolved.out = 35
    /\ resolved.lock_timeout = PyNone
    /\ resolved.soft_time_limit = PyNone
    /\ resolved.time_limit = PyInt(30)
    /\ DOMAIN resolved.config = {}

\* C9: without include_args the identifier is the task's name alone, the
\* same for every argument set; with include_args it is the name, ".args."
\* and a digest, and two calls of the task get the same identifier exactly
\* when they pass the same arguments (keyword order aside).
C9_IdentityDerivation ==
    derived.out # <<>> =>
      /\ (~derived.include_args => derived.out = <<derived.name>>)
      /\ (derived.include_args =>
            /\ Len(derived.out) > 2
            /\ SubSeq(derived.out, 1, 2) = <<derived.name, ".args.">>)
      /\ \A a \in ArgTuples, kw \in KwDicts :
            LET other == task_identifier(derived.name, a, kw, derived.include_args)
            IN IF derived.include_args
               THEN (other = derived.out) <=>
                      SameArguments(derived.args, derived.kwargs, a, kw)
               ELSE other = derived.out

\* C9 witness: an identifier was derived with include_args for a call whose
\* keyword arguments were not given in sorted order.
C9_Witness ==
    /\ derived.out # <<>>
    /\ derived.include_args
    /\ Len(derived.args) > 0
    /\ Len(derived.kwargs) = 2
    /\ KeyRank(derived.kwargs[1].k) > KeyRank(derived.kwargs[2].k)

\* The store holds the lease invocation i created.
HasLease(i) == \E l \in store : l.token = i

\* Invocations i and j guard the same JobIdentity.
SameIdentity(i, j) ==
    lock_manager[i].task_identifier = lock_manager[j].task_identifier

\* Invocation j makes its acquire attempt in this step.
AcquireStep(j) == pc[j] = "Acquiring" /\ pc'[j] # "Acquiring"

C2_RaceOneWinner ==
    \A i, j \in Invocations :
        (i # j /\ found[j] = i) =>
            /\ SameIdentity(i, j)
            /\ pc[i] \in {"Held", "Released", "Crashed"}
            /\ pc[j] = "Rejected"
            /\ outcome[j] = "OtherInstanceError"
            /\ bodyRuns[i] + bodyRuns[j] = 1

\* C2 witness: both invocations of a race are over: the winner released,
\* the loser was rejected.
C2_Witness ==
    \E i, j \in Invocations :
        /\ i # j /\ found[j] = i
        /\ pc[i] = "Released" /\ pc[j] = "Rejected"
        /\ storeCalls[i].acquire = 1 /\ storeCalls[j].acquire = 1

\* C3: an invocation whose acquire attempt found the key present ends with
\* OtherInstanceError as the caller's outcome, and its body is never run.
C3_RejectedNeverRuns ==
    \A j \in Invocations :
        /\ (found[j] # 0 =>
              /\ pc[j] = "Rejected"
              /\ outcome[j] = "OtherInstanceError"
              /\ body[j] = "none"
              /\ bodyRuns[j] = 0)
        /\ (pc[j] = "Rejected" => found[j] # 0)

\* C3 witness: an invocation was rejected while the holder was still
\* running its body.
C3_Witness ==
    \E i, j \in Invocations :
        /\ found[j] = i /\ pc[j] = "Rejected"
        /\ pc[i] = "Held" /\ body[i] = "running"

\* C4: the step that rejects an invocation leaves the store as it was, the
\* lease of the holder included, and a rejected invocation never calls
\* release.
C4_RejectKeepsLease ==
    /\ [][\A j \in Invocations :
            (pc[j] = "Acquiring" /\ pc'[j] = "Rejected") =>
                /\ store' = store
                /\ \E l \in store' :
                      /\ l.key = KeyOf(j)
                      /\ l.token = found'[j]
                      /\ l.token # j]_vars
    /\ [](\A j \in Invocations :
            pc[j] = "Rejected" =>
                /\ storeCalls[j] = [acquire |-> 1, release |-> 0]
                /\ ~HasLease(j))

\* C4 witness: an invocation was rejected and the lease of the holder it
\* found is still in the store.
C4_Witness ==
    \E i, j \in Invocations :
        /\ pc[j] = "Rejected" /\ found[j] = i
        /\ HasLease(i) /\ pc[i] = "Held"

\* C5: the step that ends an invocation that was in Held leaves no lease
\* for its JobIdentity in the store, however the body ended, and an acquire
\* attempt on a key that holds no lease acquires it and runs the body.
C5_ReleasedOnExit ==
    [][\A i \in Invocations :
          /\ (pc[i] = "Held" /\ pc'[i] = "Released") =>
                /\ LeasesAt(KeyOf(i))' = {}
                /\ outcome'[i] = body[i]
          /\ (AcquireStep(i) /\ LeasesAt(KeyOf(i)) = {}) =>
                /\ pc'[i] = "Held"
                /\ bodyRuns'[i] = 1
                /\ HasLease(i)']_vars

\* C5 witness: an invocation whose body failed has released its lease and a
\* later invocation for the same JobIdentity is running its body.
C5_Witness ==
    \E i, j \in Invocations :
        /\ i # j /\ SameIdentity(i, j)
        /\ pc[i] = "Released" /\ leaseEnd[i] = "released"
        /\ outcome[i] = "Exception"
        /\ pc[j] = "Held" /\ bodyRuns[j] = 1 /\ HasLease(j)

\* C6: when the lease of a crashed holder expires the store holds no lease
\* for its JobIdentity, an acquire attempt for that JobIdentity then
\* acquires the lease and runs the body, and the lease of a crashed holder
\* does leave the store.
C6_CrashRecovery ==
    /\ [][\A i \in Invocations :
            /\ (pc[i] = "Crashed" /\ HasLease(i) /\ leaseEnd'[i] = "expired") =>
                  LeasesAt(KeyOf(i))' = {}
            /\ \A j \in Invocations :
                  (/\ pc[i] = "Crashed" /\ ~HasLease(i)
                   /\ SameIdentity(i, j)
                   /\ AcquireStep(j)
                   /\ LeasesAt(KeyOf(j)) = {}) =>
                        (pc'[j] = "Held" /\ body'[j] = "running" /\ HasLease(j)')]_vars
    /\ \A i \in Invocations :
          (pc[i] = "Crashed" /\ HasLease(i)) ~> ~HasLease(i)

\* C6 witness: the holder crashed, its lease expired, and a new invocation
\* for the same JobIdentity is running its body.
C6_Witness ==
    \E i, j \in Invocations :
        /\ i # j /\ SameIdentity(i, j)
        /\ pc[i] = "Crashed" /\ leaseEnd[i] = "expired"
        /\ pc[j] = "Held" /\ body[j] = "running" /\ HasLease(j)

\* The invocations whose lease in the store blocks the call of j: the same
\* task and, when the task includes its arguments, the same arguments.
Blockers(j) ==
    {i \in Invocations :
        /\ HasLease(i)
        /\ call[i].task = call[j].task
        /\ (TaskOf(call[j].task).include_args =>
              SameArguments(call[i].args, call[i].kwargs,
                            call[j].args, call[j].kwargs))}

\* C7: an acquire attempt is rejected exactly when the store holds the
\* lease of an invocation of the same task and, with include_args, with
\* the same arguments; leases of other tasks, and with include_args of
\* calls with other arguments, never reject it.
C7_ScopedExclusion ==
    [][\A j \in Invocations :
          AcquireStep(j) =>
              /\ (pc'[j] = "Rejected") <=> (Blockers(j) # {})
              /\ (pc'[j] = "Held") <=> (Blockers(j) = {})]_vars

\* C7 witness: two invocations of a task that includes its arguments are in
\* Held at once with different arguments, each with its lease.
C7_Witness ==
    \E i, j \in Invocations :
        /\ i # j
        /\ pc[i] = "Held" /\ pc[j] = "Held"
        /\ call[i].task = call[j].task
        /\ TaskOf(call[i].task).include_args
        /\ call[i].args # call[j].args
        /\ HasLease(i) /\ HasLease(j)
        /\ found[i] = 0 /\ found[j] = 0

\* The scheme of the backend's url names a Redis store.
RedisScheme(url) == SplitScheme(url) \in {<<"r", "e", "d", "i", "s">>}

\* C10: an invocation whose backend is not a Redis store fails with
\* NotImplementedError without any store call: the store is unchanged by
\* it, it creates no lease and its body is not run.
C10_UnsupportedBackend ==
    /\ [](\A i \in Invocations :
            (pc[i] # "Idle" /\ ~RedisScheme(call[i].backend_url)) =>
                /\ pc[i] = "Unsupported"
                /\ outcome[i] = "NotImplementedError"
                /\ storeCalls[i] = [acquire |-> 0, release |-> 0]
                /\ bodyRuns[i] = 0 /\ body[i] = "none"
                /\ ~HasLease(i) /\ leaseEnd[i] = "none")
    /\ [][\A i \in Invocations :
            (pc[i] = "Idle" /\ pc'[i] = "Unsupported") => store' = store]_vars

\* C10 witness: an invocation failed for an unsupported backend while
\* another invocation holds a lease.
C10_Witness ==
    \E i, j \in Invocations :
        /\ pc[i] = "Unsupported"
        /\ ~RedisScheme(call[i].backend_url)
        /\ pc[j] = "Held" /\ HasLease(j)

\* The caller of invocation i has its outcome and func was called.
CompletedAfterHeld(i) == bodyRuns[i] = 1 /\ outcome[i] # "none"

\* C11 as stated: the caller of an invocation that reached Held sees
\* exactly the outcome of the body, and sees it after the release step.
C11_BodyOutcomeUnchanged ==
    \A i \in Invocations :
        CompletedAfterHeld(i) =>
            /\ outcome[i] = body[i]
            /\ storeCalls[i].release = 1

\* C11 amended: the caller of an invocation that reached Held sees the
\* outcome of the body unchanged, after the release call was made, unless
\* the release call itself raised: then the caller sees that error in
\* place of the body's outcome.  No outcome exists before the release call.
C11_BodyOutcomeUnlessReleaseFails ==
    \A i \in Invocations :
        /\ CompletedAfterHeld(i) =>
              /\ storeCalls[i].release = 1
              /\ \/ pc[i] = "Released" /\ outcome[i] = body[i]
                 \/ pc[i] = "ReleaseFailed" /\ outcome[i] = "ConnectionError"
        /\ (pc[i] = "Held" => outcome[i] = "none")

\* C11 witness: the body of one invocation raised and its caller saw that
\* error after the release; the release of another invocation failed and
\* its caller saw the connection error.
C11_Witness ==
    \E i, j \in Invocations :
        /\ pc[i] = "Released" /\ body[i] = "Exception"
        /\ outcome[i] = "Exception" /\ storeCalls[i].release = 1
        /\ pc[j] = "ReleaseFailed" /\ body[j] = "returned"
        /\ outcome[j] = "ConnectionError"

\* C12 as stated: the release step of an invocation deletes no lease that
\* another invocation created.
C12_ReleaseOwnLeaseOnly ==
    [][\A i \in Invocations :
          (pc[i] = "Held" /\ pc'[i] = "Released") =>
              \A l \in store \ store' : l.token = i]_vars

\* C13: the store holds at most one lease for every key, and an acquire
\* attempt on a key that holds a lease leaves the store as it is.
C13_OneLeasePerKey ==
    /\ [](\A l1, l2 \in store : l1.key = l2.key => l1 = l2)
    /\ [][\A j \in Invocations :
            (AcquireStep(j) /\ LeasesAt(KeyOf(j)) # {}) =>
                /\ store' = store
                /\ pc'[j] = "Rejected"]_vars

\* C13 witness: the store holds the leases of two JobIdentities, one each.
C13_Witness ==
    \E i, j \in Invocations :
        /\ i # j /\ HasLease(i) /\ HasLease(j)
        /\ ~SameIdentity(i, j)
        /\ Cardinality(store) = 2

\* The state of the lock manager of invocation i: no lock manager exists
\* when the backend was refused, and the lock manager of a crashed worker
\* never left Held.
LockState(i) ==
    CASE pc[i] = "Unsupported" -> "Idle"
      [] pc[i] = "Crashed" -> "Held"
      [] OTHER -> pc[i]

LockEdges ==
    { <<"Idle", "Acquiring">>, <<"Acquiring", "Held">>, <<"Held", "Released">>,
      <<"Acquiring", "Rejected">> }

BodyEnded(i) == body[i] \in {"returned", "Exception", "OtherInstanceError"}

\* C14: a lock manager only moves Idle -> Acquiring -> Held -> Released or
\* Idle -> Acquiring -> Rejected; it enters Held only by its own successful
\* write on a free key; Rejected is final and changes nothing in the store;
\* from Held, once the body has ended in any way, its next step is the
\* release and leads to Released, and only an invocation that ran its body
\* is in Released.
C14_StateMachine ==
    /\ [][\A i \in Invocations :
            /\ LockState(i)' # LockState(i) =>
                  <<LockState(i), LockState(i)'>> \in LockEdges
            /\ (pc[i] # "Held" /\ pc'[i] = "Held") =>
                  /\ LeasesAt(KeyOf(i)) = {}
                  /\ HasLease(i)'
            /\ (pc[i] = "Acquiring" /\ pc'[i] = "Rejected") => store' = store
            /\ pc[i] = "Rejected" =>
                  /\ pc'[i] = "Rejected"
                  /\ storeCalls'[i] = storeCalls[i]
            /\ (pc[i] = "Held" /\ BodyEnded(i) /\ storeCalls'[i] # storeCalls[i]) =>
                  pc'[i] = "Released"]_vars
    /\ [](\A i \in Invocations :
            /\ (pc[i] = "Held" /\ BodyEnded(i)) => ENABLED Exit(i)
            /\ pc[i] = "Released" =>
                  /\ bodyRuns[i] = 1 /\ BodyEnded(i)
                  /\ storeCalls[i].release = 1)

\* C14 witness: one lock manager went through Held to Released after its
\* body raised, another went to Rejected.
C14_Witness ==
    \E i, j \in Invocations :
        /\ pc[i] = "Released" /\ body[i] = "Exception"
        /\ pc[j] = "Rejected"

\* C15: an invocation makes at most one acquire call and at most one
\* release call; one that reached Held and left it made one of each, the
\* acquire before the body was called and the release after it ended; a
\* rejected one made one acquire call and no release call; one refused for
\* its backend made none.
C15_StoreRoundTrips ==
    \A i \in Invocations :
        /\ storeCalls[i].acquire <= 1
        /\ storeCalls[i].release <= 1
        /\ pc[i] \in {"Idle", "Acquiring", "Unsupported"} =>
              storeCalls[i] = [acquire |-> 0, release |-> 0]
        /\ pc[i] \in {"Held", "Crashed", "Rejected", "AcquireFailed"} =>
              storeCalls[i] = [acquire |-> 1, release |-> 0]
        /\ pc[i] \in {"Released", "ReleaseFailed"} =>
              storeCalls[i] = [acquire |-> 1, release |-> 1]
        /\ bodyRuns[i] = 1 => storeCalls[i].acquire = 1
        /\ storeCalls[i].release = 1 => (bodyRuns[i] = 1 /\ BodyEnded(i))

\* C15 witness: an invocation whose body returned has made its two calls
\* and a rejected one its single call.
C15_Witness ==
    \E i, j \in Invocations :
        /\ pc[i] = "Released" /\ body[i] = "returned"
        /\ storeCalls[i] = [acquire |-> 1, release |-> 1]
        /\ pc[j] = "Rejected"
        /\ storeCalls[j] = [acquire |-> 1, release |-> 0]

\* C16: an invocation whose worker goes on with its own steps (it does not
\* crash) ends Released, Rejected or refused for its backend; its acquire
\* attempt can always be made at once, whatever the holder does, and an
\* attempt on a held key is rejected in that step.
C16_NonBlocking ==
    /\ \A i \in Invocations :
          (pc[i] # "Idle") ~>
              (pc[i] \in {"Released", "Rejected", "Unsupported", "Crashed"})
    /\ [](\A i \in Invocations : pc[i] = "Acquiring" => ENABLED Enter(i))
    /\ [][\A j \in Invocations :
            (pc[j] = "Acquiring" /\ pc'[j] # "Acquiring"
             /\ \E i \in Invocations : HasLease(i) /\ SameIdentity(i, j)) =>
                pc'[j] = "Rejected"]_vars

\* C16 witness: the holder crashed with its lease in the store and never
\* releases; the other invocation was rejected.
C16_Witness ==
    \E i, j \in Invocations :
        /\ pc[i] = "Crashed" /\ HasLease(i)
        /\ pc[j] = "Rejected" /\ found[j] = i

\* C17: when the store cannot be reached during acquire the invocation ends
\* with a ConnectionError, never OtherInstanceError, without calling the
\* body, without a second acquire call and without a release call; a
\* rejection for contention always ends with OtherInstanceError and a holder
\* found; when the store cannot be reached during release the caller gets
\* the ConnectionError.
C17_TransportErrorDistinct ==
    \A i \in Invocations :
        /\ pc[i] = "AcquireFailed" =>
              /\ outcome[i] = "ConnectionError"
              /\ bodyRuns[i] = 0 /\ body[i] = "none"
              /\ storeCalls[i] = [acquire |-> 1, release |-> 0]
        /\ pc[i] = "Rejected" =>
              /\ outcome[i] = "OtherInstanceError"
              /\ found[i] # 0
              /\ bodyRuns[i] = 0
        /\ pc[i] = "ReleaseFailed" =>
              /\ outcome[i] = "ConnectionError"
              /\ storeCalls[i].release = 1
        /\ outcome[i] = "OtherInstanceError" =>
              \/ pc[i] = "Rejected"
              \/ pc[i] = "Released" /\ body[i] = "OtherInstanceError"
        /\ outcome[i] = "ConnectionError" =>
              pc[i] \in {"AcquireFailed", "ReleaseFailed"}

\* C17 witness: one invocation lost the store during acquire while another
\* was rejected for contention.
C17_Witness ==
    \E i, j, k \in Invocations :
        /\ pc[i] = "AcquireFailed" /\ outcome[i] = "ConnectionError"
        /\ pc[j] = "Rejected" /\ outcome[j] = "OtherInstanceError"
        /\ found[j] = k

\* C18: when the body of a holder raised OtherInstanceError, the exit still
\* makes the release call and removes the holder's lease: the key is free
\* after that step, an acquire on it can succeed, and the caller gets the
\* body's OtherInstanceError.
C18_ReleaseAnyErrorKind ==
    /\ [][\A i \in Invocations :
            (pc[i] = "Held" /\ body[i] = "OtherInstanceError"
             /\ pc'[i] # "Held" /\ pc'[i] # "Crashed") =>
                /\ pc'[i] = "Released"
                /\ storeCalls'[i].release = storeCalls[i].release + 1
                /\ ~HasLease(i)'
                /\ LockAcquired(KeyOf(i))'
                /\ outcome'[i] = "OtherInstanceError"]_vars
    /\ [](\A i \in Invocations :
            (pc[i] = "Released" /\ body[i] = "OtherInstanceError") =>
                /\ storeCalls[i].release = 1
                /\ ~HasLease(i))

\* C18 witness: the holder whose body raised OtherInstanceError released,
\* and a later invocation of the same identity holds the key.
C18_Witness ==
    \E i, j \in Invocations :
        /\ pc[i] = "Released" /\ body[i] = "OtherInstanceError"
        /\ leaseEnd[i] = "released"
        /\ pc[j] = "Held" /\ HasLease(j) /\ SameIdentity(i, j)

\* The lease time the configured task of invocation i must get: the first
\* set limit plus five seconds.
ExpectedTtl(i) == IF call[i].task = "send_report" THEN 15 ELSE 35

\* C19: every lease is stored under "_celery.single_instance." followed by
\* the identifier of the invocation that wrote it, with the invocation's
\* timeout (chosen limit + 5) as its lease time; a lease in the store keeps
\* its key and lease time; send_report with override 10 is stored under
\* _celery.single_instance.send_report for 15 seconds and a call that finds
\* it is rejected.
C19_KeyAndTtl ==
    /\ [](\A l \in store :
            /\ l.key = <<"_celery.single_instance.">>
                          \o lock_manager[l.token].task_identifier
            /\ l.ttl = ExpectedTtl(l.token)
            /\ call[l.token].task = "send_report" =>
                  l.key = <<"_celery.single_instance.", "send_report">>)
    /\ [][\A l \in store, m \in store' :
            (l.token = m.token /\ pc'[l.token] = pc[l.token]) => m = l]_vars
    /\ [][\A j \in Invocations :
            (AcquireStep(j)
             /\ \E l \in store :
                   l.key = <<"_celery.single_instance.", "send_report">>
             /\ call[j].task = "send_report") => pc'[j] = "Rejected"]_vars

\* C19 witness: the lease of send_report is in the store for 15 seconds and
\* a second call of send_report was rejected.
C19_Witness ==
    \E i, j \in Invocations :
        /\ [key |-> <<"_celery.single_instance.", "send_report">>,
            token |-> i, ttl |-> 15] \in store
        /\ call[j].task = "send_report"
        /\ pc[j] = "Rejected" /\ found[j] = i

====
